---- MODULE Spec2Model ----
(***************************************************************************)
(* A model of create_sets.py: the definition of the training and           *)
(* validation row pools, the batched construction of TrainingSet /         *)
(* ValidationSet objects under an open-file budget, the scan of the        *)
(* original file, and the cleanup of a set whose construction failed.      *)
(*                                                                         *)
(* Conventions.  Python lists are sequences, Python sets are sets, None is *)
(* written None, NoneSet, NoneList or NoneObject.  A file name is the string the program builds.  The  *)
(* disk is a function from the names of the files that exist to their      *)
(* content, a sequence of lines, each line a string with its newline.      *)
(* training_percent is a float in the program; here it is a whole number   *)
(* of percent and int(training_percent * n) is (percent * n) \div 100.     *)
(***************************************************************************)
EXTENDS Integers, Sequences, FiniteSets, TLC

VARIABLES
    args,                 \* the parsed command line (argparse namespace)
    odfi,                 \* the pickled (original_line_count, original_column_count)
    column_set_file,      \* the first field of each line of the column set file
    bad_line,             \* ordinal of the one source line without delimiter, 0 if none
    max_open_files,       \* how many files the process may hold open at once
    preexisting,          \* names of the output files on disk before the run
    disk,                 \* file name -> content, for the files that exist
    open_files,           \* names of the files the process holds open
    pc,                   \* position of program_start
    column_set,           \* program_start.column_set
    training_available,   \* TrainingSet.available_ordinals
    validation_available, \* ValidationSet.available_ordinals
    starting_set_number,  \* program_start.starting_set_number
    ending_set_number,    \* program_start.ending_set_number
    file_pass_count,      \* program_start.file_pass_count
    selection_sets,       \* create_selection_sets.selection_sets, then the batch
    i,                    \* loop variable of create_selection_sets
    tr_set,               \* the TrainingSet under construction, or None
    va_set,               \* the ValidationSet under construction, or None
    cpc,                  \* position inside TrainingSet.__init__
    ordinals,             \* local set of get_random_ordinals_exclude
    call,                 \* arguments of the get_random_ordinals_exclude call
    last_error,           \* what ended the last failed construction, or None
    passes,               \* the "Creating SelectionSet files a to b" messages printed
    built,                \* every TrainingSet create_selection_sets appended, in order
    checked               \* the (ordinal, fields) of the check_line calls made directly

vars == << args, odfi, column_set_file, bad_line, max_open_files, preexisting,
           disk, open_files, pc, column_set, training_available,
           validation_available, starting_set_number, ending_set_number,
           file_pass_count, selection_sets, i, tr_set, va_set, cpc,
           ordinals, call, last_error, passes,
           built, checked >>

(***************************************************************************)
(* Python's None, for each kind of value a variable or attribute holds: a  *)
(* string, a set of ordinals, a list of ordinals, an object.  No ordinal   *)
(* is 0.                                                                   *)
(***************************************************************************)
None == "None"
NoneSet == { 0 }
NoneList == << 0 >>
NoneObject == [ none |-> TRUE ]

(***************************************************************************)
(* Bounds of the model.                                                    *)
(***************************************************************************)
MaxSetCount == 3         \* training_set_count ranges over 1..MaxSetCount
MaxOpenFiles == 7        \* max_open_files ranges over 1..MaxOpenFiles
MaxPoolLineCount == 6    \* original_line_count ranges over 2..MaxPoolLineCount in SpecPools
MaxCheckLineCalls == 2   \* check_line calls of SpecCheckLine
MaxSampleCount == 3      \* count ranges over 0..MaxSampleCount in SpecColumns
MaxRangeEnd == 4         \* start..end lies within 1..MaxRangeEnd in SpecColumns

(***************************************************************************)
(* errno of "Too many open files", and the errno standing for any other    *)
(* OSError (ENOSPC).                                                       *)
(***************************************************************************)
EMFILE == 24
ENOSPC == 28

(***************************************************************************)
(* Sequence helpers.                                                       *)
(***************************************************************************)
Range(s) == { s[k] : k \in DOMAIN s }

IsInjective(s) == \A a, b \in DOMAIN s : s[a] = s[b] => a = b

Min(a, b) == IF a < b THEN a ELSE b

\* Python's sorted() / list.sort() on a collection of distinct integers,
\* given as any listing of it: selection sort, smallest first.
RECURSIVE Sorted(_)
Sorted(s) ==
    IF s = << >> THEN << >>
    ELSE LET k == CHOOSE a \in DOMAIN s : \A b \in DOMAIN s : s[a] <= s[b]
             rest == [ n \in 1..(Len(s) - 1) |-> IF n < k THEN s[n] ELSE s[n + 1] ]
         IN  << s[k] >> \o Sorted(rest)

\* Every order in which iterating a Python set (or list) can list its elements.
Listings(S) ==
    { s \in [ 1..Cardinality(S) -> S ] : IsInjective(s) }

(***************************************************************************)
(* The original file.  A line is the list of its fields as split on the    *)
(* delimiter; a line without delimiter has a single field.  Field c of     *)
(* line r is the column letter followed by the line ordinal.               *)
(***************************************************************************)
Letters == << "A", "B", "C", "D", "E", "F", "G" >>

OriginalLine(r, column_count) ==
    [ c \in 1..column_count |-> Letters[c] \o ToString(r) ]

\* Mutant of DelimiterMissing: the line after the one without delimiter is
\* taken for it.
DelimiterMissingOneLater(r) == bad_line # 0 /\ r = bad_line + 1

\* line.find(delimiter) == -1
DelimiterMissing(r) == r = bad_line

\* line.rstrip('\n').split(delimiter)
LineFields(r) == OriginalLine(r, odfi.original_column_count)

(***************************************************************************)
(* Output file names.                                                      *)
(***************************************************************************)
ValidationFileName(n) == "validation-set-" \o ToString(n) \o ".csv"
ValidationRowOrdinalFileName(n) == "validation-set-" \o ToString(n) \o "-row-ordinals"
ValidationColumnOrdinalFileName(n) == "validation-set-" \o ToString(n) \o "-column-ordinals"
TrainingFileName(n) == "training-set-" \o ToString(n) \o ".csv"
\* Mutant of TrainingRowOrdinalFileName: the name lacks the set ordinal.
TrainingRowOrdinalFileNameShared(n) == "training-set-row-ordinals"

TrainingRowOrdinalFileName(n) == "training-set-" \o ToString(n) \o "-row-ordinals"

\* The artifacts of one set ordinal, in the order the constructors create them.
ArtifactNames(n) ==
    << ValidationRowOrdinalFileName(n), ValidationColumnOrdinalFileName(n),
       ValidationFileName(n), TrainingRowOrdinalFileName(n), TrainingFileName(n) >>

(***************************************************************************)
(* The file system: os.access(name, R_OK), os.remove(name), open(name,'w'). *)
(***************************************************************************)
Exists(d, name) == name \in DOMAIN d

Remove(d, name) == [ f \in (DOMAIN d) \ {name} |-> d[f] ]

\* open(name, 'w') creates the file or truncates it.
Create(d, name) == [ f \in (DOMAIN d) \cup {name} |-> IF f = name THEN << >> ELSE d[f] ]

\* file.write(line) on the open file called name.
WriteLine(d, name, line) == [ d EXCEPT ![name] = @ \o << line >> ]

\* An open() fails with EMFILE exactly when the budget of open files is used up.
NoFreeHandle(open) == Cardinality(open) >= max_open_files

(***************************************************************************)
(* The inputs of a run.                                                    *)
(***************************************************************************)
\* (case_column, outcome_column): two valid pairs and one with both the same.
CaseOutcomePairs == { << 3, 1 >>, << 2, 2 >> }

\* (original_line_count, original_column_count) as get_original_file_info
\* pickled them.
SmallFile == [ original_line_count |-> 5, original_column_count |-> 4 ]
LargeFile == [ original_line_count |-> 6, original_column_count |-> 4 ]
NarrowFile == [ original_line_count |-> 4, original_column_count |-> 2 ]

OriginalFileInfos == { SmallFile, LargeFile, NarrowFile }

\* The column set file: absent, two usable columns, a repeated column.
ColumnSetFiles == { NoneList, << 4, 2 >>, << 2, 2 >> }

\* --column-count: fewer than the columns that can be sampled from a file of
\* four columns, all of them, one more than there are.
ColumnCounts == { 1, 2, 3 }

ArgsSet ==
    { [ training_percent |-> tp,
        training_row_count |-> trc,
        validation_row_count |-> vrc,
        column_count |-> cc,
        case_column |-> co[1],
        outcome_column |-> co[2],
        training_set_count |-> tsc,
        column_set_file_name |-> csf ] :
      tp \in { 50, 75 }, trc \in 1..2, vrc \in 1..2, cc \in ColumnCounts,
      co \in CaseOutcomePairs, tsc \in 1..MaxSetCount, csf \in { None, "column-set" } }

\* Output files a previous run left behind: none, or every artifact of the
\* last set ordinal of this run.
StaleContent == << "stale\n" >>

\* The runs that also try a column set file or a line without delimiter.  The
\* large file is tried with one set, no column set file, every line
\* delimited, the largest budget and no file left behind.  A column count
\* other than 2 is tried on the small file with one set, no column set file,
\* every line delimited and no file left behind.
SmallRuns == { 1, 2 }

\* The runs that are also tried with files a previous run left behind.
StaleRuns == { 1, 2, 3 }

\* The budgets of open files tried with files a previous run left behind:
\* with three sets the third runs out of files at its first file under the
\* one and at its training row ordinals under the other.
StaleBudgets == { 4, 5 }

\* The runs that are tried with every budget of open files; a run of more
\* sets is tried with the largest budget.
EveryBudgetRuns == { 1, 2, 3 }

InitProgramAt(position) ==
    /\ pc = position
    /\ column_set = NoneSet
    /\ training_available = NoneList
    /\ validation_available = NoneList
    /\ starting_set_number = 0
    /\ ending_set_number = 0
    /\ file_pass_count = 0
    /\ selection_sets = << >>
    /\ i = 0
    /\ tr_set = NoneObject
    /\ va_set = NoneObject
    /\ cpc = None
    /\ ordinals = {}
    /\ call = NoneObject
    /\ last_error = NoneObject
    /\ passes = << >>
    /\ built = << >>
    /\ checked = << >>
    /\ open_files = {}
    /\ disk = [ f \in preexisting |-> StaleContent ]

Init ==
    /\ args \in ArgsSet
    /\ odfi \in OriginalFileInfos
    /\ column_set_file \in ColumnSetFiles
    /\ (args.column_set_file_name = None) = (column_set_file = NoneList)
    /\ bad_line \in { 0, 3 }
    /\ (column_set_file # NoneList \/ bad_line # 0) => args.training_set_count \in SmallRuns
    /\ max_open_files \in 1..MaxOpenFiles
    /\ args.training_set_count \notin EveryBudgetRuns => max_open_files = MaxOpenFiles
    /\ preexisting \in { {}, Range(ArtifactNames(args.training_set_count)) }
    /\ preexisting # {} =>
           /\ args.training_set_count \in StaleRuns
           /\ max_open_files \in StaleBudgets
    /\ args.column_count # 2 =>
           /\ odfi = SmallFile
           /\ args.training_set_count = 1
           /\ column_set_file = NoneList
           /\ bad_line = 0
           /\ preexisting = {}
    /\ odfi = LargeFile =>
           /\ args.training_set_count = 1
           /\ column_set_file = NoneList
           /\ bad_line = 0
           /\ max_open_files = MaxOpenFiles
           /\ preexisting = {}
    /\ InitProgramAt("check_args")

(***************************************************************************)
(* check_args and check_args_additional, for a training/validation run     *)
(* whose input files exist.                                                *)
(***************************************************************************)
\* Mutant of ArgsOk: the case and the outcome column may be the same.
ArgsOkSameColumn ==
    /\ args.training_percent > 0 /\ args.training_percent < 100
    /\ args.training_row_count >= 1
    /\ args.validation_row_count >= 1
    /\ args.column_count >= 1
    /\ args.case_column >= 1
    /\ args.outcome_column >= 1

ArgsOk ==
    /\ args.training_percent > 0 /\ args.training_percent < 100
    /\ args.training_row_count >= 1
    /\ args.validation_row_count >= 1
    /\ args.column_count >= 1
    /\ args.case_column >= 1
    /\ args.outcome_column >= 1
    /\ args.case_column # args.outcome_column

ArgsAdditionalOk ==
    /\ args.case_column <= odfi.original_column_count
    /\ args.outcome_column <= odfi.original_column_count

program_vars == << column_set, training_available, validation_available,
                   starting_set_number, ending_set_number, file_pass_count >>
build_vars == << selection_sets, i, tr_set, va_set, cpc, ordinals, call, last_error,
                 passes,
                 built, checked >>
input_vars == << args, odfi, column_set_file, bad_line, max_open_files, preexisting >>
file_vars == << disk, open_files >>

CheckArgs ==
    /\ pc = "check_args"
    /\ pc' = IF ArgsOk /\ ArgsAdditionalOk
             THEN (IF args.column_set_file_name # None
                   THEN "get_column_set" ELSE "define_available_ordinals")
             ELSE "exit"
    /\ UNCHANGED << input_vars, file_vars, program_vars, build_vars >>

(***************************************************************************)
(* get_column_set: the first column_count lines of the column set file.    *)
(***************************************************************************)
ColumnSetLines == SubSeq(column_set_file, 1, Min(Len(column_set_file), args.column_count))

ColumnLineOk(lines, n) ==
    /\ lines[n] >= 1 /\ lines[n] <= odfi.original_column_count
    /\ lines[n] # args.case_column
    /\ lines[n] # args.outcome_column
    /\ \A m \in 1..(n - 1) : lines[m] # lines[n]

GetColumnSet ==
    /\ pc = "get_column_set"
    /\ IF \A n \in DOMAIN ColumnSetLines : ColumnLineOk(ColumnSetLines, n)
       THEN /\ column_set' = Range(ColumnSetLines)
            /\ pc' = "define_available_ordinals"
       ELSE /\ pc' = "exit"
            /\ UNCHANGED column_set
    /\ UNCHANGED << input_vars, file_vars, build_vars, training_available,
                    validation_available, starting_set_number,
                    ending_set_number, file_pass_count >>

(***************************************************************************)
(* define_available_ordinals.                                              *)
(***************************************************************************)
\* list(range(2, original_line_count + 1))
DataOrdinals(line_count) == [ n \in 1..(line_count - 1) |-> n + 1 ]

\* The outcomes of random.shuffle(s).
Shuffles(s) == { [ n \in DOMAIN s |-> s[p[n]] ] : p \in Permutations(DOMAIN s) }

\* int(args.training_percent * data_ordinal_count)
TrainingOrdinalCount(percent, data_ordinal_count) == (percent * data_ordinal_count) \div 100

\* Mutants of the two slices: the training pool is the whole list; the
\* validation pool starts one element early.
TrainingSliceWhole(data_ordinals, n) == data_ordinals
ValidationSliceOverlapping(data_ordinals, n) == SubSeq(data_ordinals, n, Len(data_ordinals))

\* data_ordinals[0:training_ordinal_count] and data_ordinals[training_ordinal_count:]
TrainingSlice(data_ordinals, n) == SubSeq(data_ordinals, 1, n)
ValidationSlice(data_ordinals, n) == SubSeq(data_ordinals, n + 1, Len(data_ordinals))

\* Mutant of RowCountsOk: a row count equal to the size of its pool passes.
RowCountsOkUpToPool(training_ordinal_count, validation_ordinal_count) ==
    /\ ~ (args.training_row_count > training_ordinal_count)
    /\ ~ (args.validation_row_count > validation_ordinal_count)

RowCountsOk(training_ordinal_count, validation_ordinal_count) ==
    /\ ~ (args.training_row_count >= training_ordinal_count)
    /\ ~ (args.validation_row_count >= validation_ordinal_count)

DefineAvailableOrdinals ==
    /\ pc = "define_available_ordinals"
    /\ \E data_ordinals \in Shuffles(DataOrdinals(odfi.original_line_count)) :
         LET data_ordinal_count == Len(data_ordinals)
             training_ordinal_count ==
                 TrainingOrdinalCount(args.training_percent, data_ordinal_count)
             validation_ordinal_count == data_ordinal_count - training_ordinal_count
         IN  IF RowCountsOk(training_ordinal_count, validation_ordinal_count)
             THEN /\ training_available' = TrainingSlice(data_ordinals, training_ordinal_count)
                  /\ validation_available' = ValidationSlice(data_ordinals, training_ordinal_count)
                  /\ starting_set_number' = 1
                  /\ ending_set_number' = 0
                  /\ file_pass_count' = 0
                  /\ pc' = "loop"
             ELSE /\ pc' = "exit"
                  /\ UNCHANGED << training_available, validation_available,
                                  starting_set_number, ending_set_number,
                                  file_pass_count >>
    /\ UNCHANGED << input_vars, file_vars, build_vars, column_set >>

(***************************************************************************)
(* SelectionSet: sampling, output columns, ordinal files.                  *)
(***************************************************************************)
\* Mutant of GetRandomOrdinals: sampling with replacement.
GetRandomOrdinalsWithReplacement(pool, count) ==
    { [ n \in 1..count |-> pool[p[n]] ] : p \in [ 1..count -> DOMAIN pool ] }

\* The outcomes of random.sample(pool, count): count elements at distinct
\* positions of pool, in any order.  Empty when count > len(pool), where
\* random.sample raises ValueError.
GetRandomOrdinals(pool, count) ==
    { [ n \in 1..count |-> pool[p[n]] ] :
        p \in { q \in [ 1..count -> DOMAIN pool ] : IsInjective(q) } }

\* Mutant of DefineOutputColumns: the columns are not sorted.
DefineOutputColumnsUnsorted(listing) ==
    << args.case_column, args.outcome_column >> \o listing

\* define_output_columns, listing being list(self.column_ordinals).
DefineOutputColumns(listing) ==
    << args.case_column, args.outcome_column >> \o Sorted(listing)

\* Mutant of OrdinalLines: the ordinals are written in the order listed.
OrdinalLinesUnsorted(listing) ==
    [ n \in DOMAIN listing |-> ToString(listing[n]) \o "\n" ]

\* The lines write_ordinals writes for sorted(ordinals).
OrdinalLines(listing) ==
    LET sorted_ordinals == Sorted(listing)
    IN  [ n \in DOMAIN sorted_ordinals |-> ToString(sorted_ordinals[n]) \o "\n" ]

\* ','.join(fields) for a list of strings.
RECURSIVE Join(_)
Join(fields) ==
    IF fields = << >> THEN ""
    ELSE IF Len(fields) = 1 THEN fields[1]
    ELSE fields[1] \o "," \o Join(Tail(fields))

\* Mutant of FieldsToWrite: every field is written.
FieldsToWriteAll(output_columns, fields) == fields

\* The fields check_line writes for a line of its set.
FieldsToWrite(output_columns, fields) ==
    IF output_columns = NoneList THEN fields
    ELSE [ n \in DOMAIN output_columns |-> fields[output_columns[n]] ]

\* Mutant of CheckLine: the line is written whatever its ordinal.
CheckLineAnyOrdinal(set, ordinal, fields, d) ==
    WriteLine(d, set.file_name, Join(FieldsToWrite(set.output_columns, fields)) \o "\n")

\* SelectionSet.check_line on a set whose file is open: the content of the
\* disk afterwards.
CheckLine(set, ordinal, fields, d) ==
    IF ordinal \in Range(set.row_ordinals)
    THEN WriteLine(d, set.file_name, Join(FieldsToWrite(set.output_columns, fields)) \o "\n")
    ELSE d

\* Mutant of TrainingSetCheckLine: the validation set is not asked.
TrainingSetCheckLineOwnOnly(set, ordinal, fields, d) == CheckLine(set, ordinal, fields, d)

\* TrainingSet.check_line: the validation set first, then the training set.
TrainingSetCheckLine(set, ordinal, fields, d) ==
    LET d1 == IF set.validation_set # NoneObject
              THEN CheckLine(set.validation_set, ordinal, fields, d)
              ELSE d
    IN  CheckLine(set, ordinal, fields, d1)

(***************************************************************************)
(* The objects.  set_file is None, "open" or "closed".                     *)
(***************************************************************************)
NewValidationSet(file_ordinal, row_ordinals) ==
    [ file_ordinal |-> file_ordinal,
      row_ordinals |-> row_ordinals,
      column_ordinals |-> NoneSet,
      output_columns |-> NoneList,
      row_ordinal_file_name |-> None,
      column_ordinal_file_name |-> None,
      file_name |-> None,
      set_file |-> None ]

NewTrainingSet(file_ordinal) ==
    [ file_ordinal |-> file_ordinal,
      row_ordinals |-> << >>,
      column_ordinals |-> NoneSet,
      output_columns |-> NoneList,
      row_ordinal_file_name |-> None,
      file_name |-> None,
      set_file |-> None,
      validation_set |-> NoneObject ]

(***************************************************************************)
(* cleanup.  A result is the disk, the open files, the object and whether  *)
(* an exception left the method.                                           *)
(***************************************************************************)
\* os.remove(name): FileNotFoundError when the file does not exist.
OsRemove(r, name) ==
    IF r.raised THEN r
    ELSE IF Exists(r.disk, name) THEN [ r EXCEPT !.disk = Remove(r.disk, name) ]
    ELSE [ r EXCEPT !.raised = TRUE ]

\* Mutant of RemoveIfAccessible: os.remove without asking os.access.
RemoveUnchecked(r, name) ==
    IF r.raised THEN r
    ELSE IF name # None THEN OsRemove(r, name)
    ELSE r

\* if name is not None and os.access(name, os.R_OK): os.remove(name)
RemoveIfAccessible(r, name) ==
    IF r.raised THEN r
    ELSE IF name # None /\ Exists(r.disk, name) THEN OsRemove(r, name)
    ELSE r

\* if self.set_file is not None: close it if it is not closed; remove the
\* file if it is accessible.
CloseAndRemoveSetFile(r) ==
    IF r.raised \/ r.set.set_file = None THEN r
    ELSE LET closed == [ r EXCEPT !.open_files = @ \ { r.set.file_name },
                                  !.set.set_file = "closed" ]
         IN  IF Exists(closed.disk, closed.set.file_name)
             THEN OsRemove(closed, closed.set.file_name)
             ELSE closed

\* Mutant of ValidationSetCleanup: the column ordinal file is left.
ValidationSetCleanupWithoutColumns(set, d, open) ==
    LET r0 == [ disk |-> d, open_files |-> open, set |-> set, raised |-> FALSE ]
        r1 == RemoveIfAccessible(r0, set.row_ordinal_file_name)
    IN  CloseAndRemoveSetFile(r1)

ValidationSetCleanup(set, d, open) ==
    LET r0 == [ disk |-> d, open_files |-> open, set |-> set, raised |-> FALSE ]
        r1 == RemoveIfAccessible(r0, set.row_ordinal_file_name)
        r2 == RemoveIfAccessible(r1, set.column_ordinal_file_name)
    IN  CloseAndRemoveSetFile(r2)

\* Mutant of TrainingSetCleanup: the validation set is not cleaned up.
TrainingSetCleanupOwnFilesOnly(set, d, open) ==
    LET r0 == [ disk |-> d, open_files |-> open, set |-> set, raised |-> FALSE ]
        r1 == RemoveIfAccessible(r0, set.row_ordinal_file_name)
    IN  CloseAndRemoveSetFile(r1)

TrainingSetCleanup(set, d, open) ==
    LET r0 == [ disk |-> d, open_files |-> open, set |-> set, raised |-> FALSE ]
        r1 == RemoveIfAccessible(r0, set.row_ordinal_file_name)
        r2 == CloseAndRemoveSetFile(r1)
        v  == IF r2.raised THEN r2
              ELSE ValidationSetCleanup(set.validation_set, r2.disk, r2.open_files)
    IN  [ disk |-> v.disk, open_files |-> v.open_files,
          set |-> IF r2.raised THEN r2.set
                  ELSE [ r2.set EXCEPT !.validation_set = v.set ],
          raised |-> v.raised ]

(***************************************************************************)
(* program_start: the loop over the passes.                                *)
(***************************************************************************)
\* ending_set_number as create_selection_sets first computes it.
LastSetNumber ==
    Min(starting_set_number - 1 + args.training_set_count, args.training_set_count)

LoopTest ==
    /\ pc = "loop"
    /\ IF ending_set_number < args.training_set_count
       THEN /\ file_pass_count' = file_pass_count + 1
            /\ selection_sets' = << >>
            /\ i' = starting_set_number
            /\ IF starting_set_number <= LastSetNumber
               THEN /\ pc' = "create"
                    /\ cpc' = "init"
                    /\ UNCHANGED ending_set_number
               ELSE /\ pc' = "scan"
                    /\ ending_set_number' = LastSetNumber
                    /\ UNCHANGED cpc
       ELSE /\ pc' = "done"
            /\ UNCHANGED << file_pass_count, selection_sets, i, cpc, ending_set_number >>
    /\ UNCHANGED << input_vars, file_vars, column_set, training_available,
                    validation_available, starting_set_number, tr_set, va_set,
                    ordinals, call, last_error, passes,
                    built, checked >>

(***************************************************************************)
(* create_selection_sets: what follows an exception of the constructor.    *)
(***************************************************************************)
\* Mutant of BatchCanStop: a batch without any set is returned as well.
BatchCanStopEmpty(sets) == Len(sets) >= 0

\* len(selection_sets) > 1
BatchCanStop(sets) == Len(sets) > 1

\* r is the result of the cleanup the constructor ran before it raised.
ConstructionFails(errno, step, r) ==
    /\ disk' = r.disk
    /\ open_files' = r.open_files
    /\ last_error' = [ errno |-> errno, file_ordinal |-> i, step |-> step, set |-> r.set ]
    /\ tr_set' = NoneObject
    /\ va_set' = NoneObject
    /\ cpc' = None
    /\ ordinals' = {}
    /\ IF errno = EMFILE /\ BatchCanStop(selection_sets)
       THEN /\ ending_set_number' = i - 1
            /\ pc' = "scan"
       ELSE /\ pc' = "exit"
            /\ UNCHANGED ending_set_number
    /\ UNCHANGED << input_vars, column_set, training_available, validation_available,
                    starting_set_number, file_pass_count, selection_sets, i, call,
                    passes, built, checked >>

\* An exception that is no OSError (ValueError of the constructors or of
\* random.sample): the run ends, nothing is cleaned up.
ConstructionRaises(step) ==
    /\ pc' = "exit"
    /\ last_error' = [ errno |-> 0, file_ordinal |-> i, step |-> step, set |-> NoneObject ]
    /\ UNCHANGED << input_vars, file_vars, program_vars, selection_sets, i, tr_set,
                    va_set, cpc, ordinals, call, passes,
                    built, checked >>

\* How write_ordinals can end: "ok", the open fails, or a write fails after
\* the file was created.  How open(name, 'w') can end: "ok" or the open fails.
WriteOrdinalsOutcomes ==
    IF NoFreeHandle(open_files) THEN { "emfile" }
    ELSE { "ok", "open_failed", "write_failed" }

OpenOutcomes ==
    IF NoFreeHandle(open_files) THEN { "emfile" } ELSE { "ok", "open_failed" }

Errno(outcome) == IF outcome = "emfile" THEN EMFILE ELSE ENOSPC

\* Mutant of WriteOrdinals: the file is created and the lines are not written.
WriteOrdinalsCreatesOnly(d, name, listing, outcome) ==
    IF outcome \in { "ok", "write_failed" } THEN Create(d, name) ELSE d

\* The disk after write_ordinals(listing, name) ended with outcome.
WriteOrdinals(d, name, listing, outcome) ==
    IF outcome = "ok" THEN [ Create(d, name) EXCEPT ![name] = OrdinalLines(listing) ]
    ELSE IF outcome = "write_failed" THEN Create(d, name)
    ELSE d

(***************************************************************************)
(* TrainingSet.__init__, step by step.  Its first statement that does      *)
(* anything is the construction of the ValidationSet.                      *)
(***************************************************************************)
not_built == << input_vars, program_vars, selection_sets, i, passes,
                built, checked >>

\* ValidationSet.__init__ once its columns are known: output columns, then
\* the names of the data file and of the row ordinal file.
ValidationSetWithColumns(set, column_ordinals, listing) ==
    [ set EXCEPT !.column_ordinals = column_ordinals,
                 !.output_columns = DefineOutputColumns(listing),
                 !.file_name = ValidationFileName(set.file_ordinal),
                 !.row_ordinal_file_name = ValidationRowOrdinalFileName(set.file_ordinal) ]

\* get_random_ordinals_exclude(args.column_count, 1, original_column_count,
\* exclude_cols) as ValidationSet.__init__ calls it.
ColumnsCall ==
    [ count |-> args.column_count,
      start |-> 1,
      end |-> odfi.original_column_count,
      exclude |-> { args.case_column, args.outcome_column } ]

TrainingSetInit ==
    /\ pc = "create" /\ cpc = "init"
    /\ IF \/ training_available = NoneList
          \/ validation_available = NoneList
          \/ GetRandomOrdinals(validation_available, args.validation_row_count) = {}
       THEN ConstructionRaises("init")
       ELSE /\ \E row_ordinals \in
                    GetRandomOrdinals(validation_available, args.validation_row_count) :
                 IF column_set # NoneSet
                 THEN /\ \E listing \in Listings(column_set) :
                           va_set' = ValidationSetWithColumns(
                                         NewValidationSet(i, row_ordinals),
                                         column_set, listing)
                      /\ cpc' = "v_row_ordinals"
                      /\ UNCHANGED call
                 ELSE /\ va_set' = NewValidationSet(i, row_ordinals)
                      /\ cpc' = "v_columns"
                      /\ call' = ColumnsCall
            /\ tr_set' = NewTrainingSet(i)
            /\ ordinals' = {}
            /\ UNCHANGED << not_built, file_vars, pc, last_error >>

\* Mutant of WhileTest: the loop ends one element early.
WhileTestOneShort(chosen, count) == Cardinality(chosen) < count - 1

\* while len(ordinals) < count
WhileTest(chosen, count) == Cardinality(chosen) < count

\* Mutant of AddUnlessExcluded: excluded integers are added too.
AddAlways(chosen, r, exclude) == chosen \cup { r }

\* if not r in exclude: ordinals.add(r)
AddUnlessExcluded(chosen, r, exclude) ==
    IF r \notin exclude THEN chosen \cup { r } ELSE chosen

\* One turn of the loop of get_random_ordinals_exclude(count, start, end,
\* exclude) with r = random.randint(start, end), or its return to
\* ValidationSet.__init__.
GetRandomOrdinalsExclude ==
    /\ pc = "create" /\ cpc = "v_columns"
    /\ IF WhileTest(ordinals, call.count)
       THEN /\ \E r \in call.start..call.end :
                 ordinals' = AddUnlessExcluded(ordinals, r, call.exclude)
            /\ UNCHANGED << va_set, cpc >>
       ELSE /\ \E listing \in Listings(ordinals) :
                 va_set' = ValidationSetWithColumns(va_set, ordinals, listing)
            /\ cpc' = "v_row_ordinals"
            /\ ordinals' = {}
    /\ UNCHANGED << not_built, file_vars, pc, tr_set, call, last_error >>

WriteValidationRowOrdinals ==
    /\ pc = "create" /\ cpc = "v_row_ordinals"
    /\ \E outcome \in WriteOrdinalsOutcomes :
         LET d == WriteOrdinals(disk, va_set.row_ordinal_file_name,
                                va_set.row_ordinals, outcome)
         IN  IF outcome = "ok"
             THEN /\ disk' = d
                  /\ va_set' = [ va_set EXCEPT !.column_ordinal_file_name =
                                     ValidationColumnOrdinalFileName(va_set.file_ordinal) ]
                  /\ cpc' = "v_column_ordinals"
                  /\ UNCHANGED << not_built, open_files, pc, tr_set, ordinals, call, last_error >>
             ELSE ConstructionFails(Errno(outcome), "v_row_ordinals",
                                    ValidationSetCleanup(va_set, d, open_files))

WriteValidationColumnOrdinals ==
    /\ pc = "create" /\ cpc = "v_column_ordinals"
    /\ IF va_set.column_ordinals # NoneSet
       THEN \E outcome \in WriteOrdinalsOutcomes :
              \E listing \in Listings(va_set.column_ordinals) :
                LET d == WriteOrdinals(disk, va_set.column_ordinal_file_name,
                                       listing, outcome)
                IN  IF outcome = "ok"
                    THEN /\ disk' = d
                         /\ cpc' = "v_set_file"
                         /\ UNCHANGED << not_built, open_files, pc, tr_set, va_set,
                                         ordinals, call, last_error >>
                    ELSE ConstructionFails(Errno(outcome), "v_column_ordinals",
                                           ValidationSetCleanup(va_set, d, open_files))
       ELSE /\ cpc' = "v_set_file"
            /\ UNCHANGED << not_built, file_vars, pc, tr_set, va_set, ordinals, call,
                            last_error >>

\* The last statement of ValidationSet.__init__; when it succeeds the
\* TrainingSet keeps the new ValidationSet as its validation_set.
OpenValidationSetFile ==
    /\ pc = "create" /\ cpc = "v_set_file"
    /\ \E outcome \in OpenOutcomes :
         IF outcome = "ok"
         THEN /\ disk' = Create(disk, va_set.file_name)
              /\ open_files' = open_files \cup { va_set.file_name }
              /\ tr_set' = [ tr_set EXCEPT !.validation_set =
                                 [ va_set EXCEPT !.set_file = "open" ] ]
              /\ va_set' = NoneObject
              /\ cpc' = "t_sample"
              /\ UNCHANGED << not_built, pc, ordinals, call, last_error >>
         ELSE ConstructionFails(Errno(outcome), "v_set_file",
                                ValidationSetCleanup(va_set, disk, open_files))

\* Mutant of TrainingColumns: every column of the original file.
TrainingColumnsAll(validation_set) == 1..odfi.original_column_count

\* self.column_ordinals = self.validation_set.column_ordinals
TrainingColumns(validation_set) == validation_set.column_ordinals

\* The columns of the validation set, the sample of the training rows, the
\* output columns and the two file names.
TrainingSetSample ==
    /\ pc = "create" /\ cpc = "t_sample"
    /\ IF GetRandomOrdinals(training_available, args.training_row_count) = {}
       THEN ConstructionRaises("t_sample")
       ELSE /\ \E row_ordinals \in
                    GetRandomOrdinals(training_available, args.training_row_count) :
                 \E listing \in Listings(TrainingColumns(tr_set.validation_set)) :
                   tr_set' = [ tr_set EXCEPT
                       !.column_ordinals = TrainingColumns(tr_set.validation_set),
                       !.row_ordinals = row_ordinals,
                       !.output_columns = DefineOutputColumns(listing),
                       !.file_name = TrainingFileName(tr_set.file_ordinal),
                       !.row_ordinal_file_name =
                           TrainingRowOrdinalFileName(tr_set.file_ordinal) ]
            /\ cpc' = "t_row_ordinals"
            /\ UNCHANGED << not_built, file_vars, pc, va_set, ordinals, call, last_error >>

WriteTrainingRowOrdinals ==
    /\ pc = "create" /\ cpc = "t_row_ordinals"
    /\ \E outcome \in WriteOrdinalsOutcomes :
         LET d == WriteOrdinals(disk, tr_set.row_ordinal_file_name,
                                tr_set.row_ordinals, outcome)
         IN  IF outcome = "ok"
             THEN /\ disk' = d
                  /\ cpc' = "t_set_file"
                  /\ UNCHANGED << not_built, open_files, pc, tr_set, va_set, ordinals, call,
                                  last_error >>
             ELSE ConstructionFails(Errno(outcome), "t_row_ordinals",
                                    TrainingSetCleanup(tr_set, d, open_files))

\* The last statement of TrainingSet.__init__; when it succeeds
\* create_selection_sets appends the set and goes on with the next ordinal,
\* or returns after the last one.
OpenTrainingSetFile ==
    /\ pc = "create" /\ cpc = "t_set_file"
    /\ \E outcome \in OpenOutcomes :
         IF outcome = "ok"
         THEN /\ disk' = Create(disk, tr_set.file_name)
              /\ open_files' = open_files \cup { tr_set.file_name }
              /\ selection_sets' =
                     Append(selection_sets, [ tr_set EXCEPT !.set_file = "open" ])
              /\ built' = Append(built, [ tr_set EXCEPT !.set_file = "open" ])
              /\ tr_set' = NoneObject
              /\ i' = i + 1
              /\ IF i + 1 <= LastSetNumber
                 THEN /\ cpc' = "init"
                      /\ UNCHANGED << pc, ending_set_number >>
                 ELSE /\ cpc' = None
                      /\ pc' = "scan"
                      /\ ending_set_number' = LastSetNumber
              /\ UNCHANGED << input_vars, column_set, training_available,
                              validation_available, starting_set_number,
                              file_pass_count, va_set, ordinals, call, last_error, passes,
                              checked >>
         ELSE ConstructionFails(Errno(outcome), "t_set_file",
                                TrainingSetCleanup(tr_set, disk, open_files))

(***************************************************************************)
(* process_regular_file and process_original_file: one pass.               *)
(***************************************************************************)
\* for sel_set in selection_sets: sel_set.check_line(ordinal, line_fields)
RECURSIVE DispatchLine(_, _, _, _)
DispatchLine(sets, ordinal, fields, d) ==
    IF sets = << >> THEN d
    ELSE DispatchLine(Tail(sets), ordinal, fields,
                      TrainingSetCheckLine(Head(sets), ordinal, fields, d))

\* The lines from ordinal r on: the disk afterwards, and the ordinal of the
\* line without delimiter that ended the run, 0 if none did.
RECURSIVE ProcessOriginalFile(_, _, _)
ProcessOriginalFile(sets, r, d) ==
    IF r > odfi.original_line_count THEN [ disk |-> d, stopped_at |-> 0 ]
    ELSE IF DelimiterMissing(r) THEN [ disk |-> d, stopped_at |-> r ]
    ELSE ProcessOriginalFile(sets, r + 1, DispatchLine(sets, r, LineFields(r), d))

ProcessRegularFile ==
    /\ pc = "scan"
    /\ IF NoFreeHandle(open_files)
       THEN /\ pc' = "crash"
            /\ UNCHANGED disk
       ELSE LET done == ProcessOriginalFile(selection_sets, 1, disk)
            IN  /\ disk' = done.disk
                /\ pc' = IF done.stopped_at = 0 THEN "close" ELSE "exit"
    /\ passes' = Append(passes, << starting_set_number, ending_set_number >>)
    /\ last_error' = NoneObject
    /\ UNCHANGED << input_vars, program_vars, open_files, selection_sets, i, tr_set,
                    va_set, cpc, ordinals, call, built, checked >>

(***************************************************************************)
(* close_selection_sets, then the next starting set number.                *)
(***************************************************************************)
\* Mutant of TrainingSetClose: the validation set is not closed.
TrainingSetCloseOwnFileOnly(set) == [ set EXCEPT !.set_file = "closed" ]

\* Mutant of TrainingSetClose: the row ordinals are dropped with the file.
TrainingSetCloseDropsRows(set) ==
    [ set EXCEPT !.set_file = "closed", !.validation_set.set_file = "closed",
                 !.row_ordinals = << >> ]

\* TrainingSet.close
TrainingSetClose(set) ==
    [ set EXCEPT !.set_file = "closed", !.validation_set.set_file = "closed" ]

SetFileNames(sets) ==
    UNION { { sets[n].file_name, sets[n].validation_set.file_name } : n \in DOMAIN sets }

\* Mutant of NextStartingSetNumber: the next pass starts at the last set again.
NextStartingSetNumberSame(ending) == ending

\* starting_set_number = ending_set_number + 1
NextStartingSetNumber(ending) == ending + 1

CloseSelectionSets ==
    /\ pc = "close"
    /\ selection_sets' = [ n \in DOMAIN selection_sets |-> TrainingSetClose(selection_sets[n]) ]
    /\ open_files' = open_files \ SetFileNames(selection_sets)
    /\ starting_set_number' = NextStartingSetNumber(ending_set_number)
    /\ pc' = "loop"
    /\ UNCHANGED << input_vars, disk, column_set, training_available,
                    validation_available, ending_set_number, file_pass_count, i,
                    tr_set, va_set, cpc, ordinals, call, last_error, passes,
                    built, checked >>

Next ==
    \/ CheckArgs
    \/ GetColumnSet
    \/ DefineAvailableOrdinals
    \/ LoopTest
    \/ TrainingSetInit
    \/ GetRandomOrdinalsExclude
    \/ WriteValidationRowOrdinals
    \/ WriteValidationColumnOrdinals
    \/ OpenValidationSetFile
    \/ TrainingSetSample
    \/ WriteTrainingRowOrdinals
    \/ OpenTrainingSetFile
    \/ ProcessRegularFile
    \/ CloseSelectionSets

Spec == Init /\ [][Next]_vars

(***************************************************************************)
(* define_available_ordinals alone, for every line count up to             *)
(* MaxPoolLineCount, three training percents and row counts 1 and 2.       *)
(***************************************************************************)
PoolArgsSet ==
    { [ training_percent |-> tp,
        training_row_count |-> trc,
        validation_row_count |-> vrc,
        column_count |-> 2,
        case_column |-> 3,
        outcome_column |-> 1,
        training_set_count |-> 1,
        column_set_file_name |-> None ] :
      tp \in { 25, 50, 75 }, trc \in 1..2, vrc \in 1..2 }

InitPools ==
    /\ args \in PoolArgsSet
    /\ odfi \in { [ original_line_count |-> n, original_column_count |-> 4 ] :
                    n \in 2..MaxPoolLineCount }
    /\ column_set_file = NoneList
    /\ bad_line = 0
    /\ max_open_files = MaxOpenFiles
    /\ preexisting = {}
    /\ InitProgramAt("define_available_ordinals")

NextPools == DefineAvailableOrdinals

SpecPools == InitPools /\ [][NextPools]_vars

(***************************************************************************)
(* SelectionSet.check_line alone: a set with given row ordinals and output *)
(* columns, its file open and empty, and up to MaxCheckLineCalls calls on  *)
(* lines of seven fields.                                                  *)
(***************************************************************************)
CheckLineOutputColumns ==
    { NoneList, << 2, 5, 7 >>, << 7, 2 >>, << 4 >>, << 3, 1, 2, 4 >> }

CheckLineRowOrdinals == { << 2 >>, << 4, 2 >>, << 3, 4 >> }

CheckLineSets ==
    { [ NewValidationSet(1, row_ordinals) EXCEPT
            !.output_columns = output_columns,
            !.file_name = ValidationFileName(1),
            !.set_file = "open" ] :
      row_ordinals \in CheckLineRowOrdinals, output_columns \in CheckLineOutputColumns }

InitCheckLine ==
    /\ args \in { a \in PoolArgsSet : a.training_percent = 50 /\ a.training_row_count = 1
                                      /\ a.validation_row_count = 1 }
    /\ odfi = [ original_line_count |-> 4, original_column_count |-> 7 ]
    /\ column_set_file = NoneList
    /\ bad_line = 0
    /\ max_open_files = MaxOpenFiles
    /\ preexisting = {}
    /\ pc = "check_line"
    /\ column_set = NoneSet
    /\ training_available = NoneList
    /\ validation_available = NoneList
    /\ starting_set_number = 0
    /\ ending_set_number = 0
    /\ file_pass_count = 0
    /\ selection_sets = << >>
    /\ i = 0
    /\ tr_set = NoneObject
    /\ va_set \in CheckLineSets
    /\ cpc = None
    /\ ordinals = {}
    /\ call = NoneObject
    /\ last_error = NoneObject
    /\ passes = << >>
    /\ built = << >>
    /\ checked = << >>
    /\ open_files = { va_set.file_name }
    /\ disk = [ f \in { va_set.file_name } |-> << >> ]

SelectionSetCheckLine ==
    /\ pc = "check_line"
    /\ Len(checked) < MaxCheckLineCalls
    /\ \E ordinal \in 1..odfi.original_line_count :
         \E fields \in { Letters, LineFields(ordinal) } :
           /\ disk' = CheckLine(va_set, ordinal, fields, disk)
           /\ checked' = Append(checked, [ ordinal |-> ordinal, fields |-> fields ])
    /\ UNCHANGED << input_vars, program_vars, open_files, pc, selection_sets, i, tr_set,
                    va_set, cpc, ordinals, call, last_error, passes, built >>

NextCheckLine == SelectionSetCheckLine

SpecCheckLine == InitCheckLine /\ [][NextCheckLine]_vars

(***************************************************************************)
(* SelectionSet.get_random_ordinals_exclude alone, called by the           *)
(* constructor of a ValidationSet: every count up to MaxSampleCount, every *)
(* non-empty range within 1..MaxRangeEnd, every exclude of at most two     *)
(* integers of 1..MaxRangeEnd.                                             *)
(***************************************************************************)
ExcludeCalls ==
    { [ count |-> count, start |-> start, end |-> end, exclude |-> exclude ] :
      count \in 0..MaxSampleCount,
      start \in 1..2,
      end \in 1..MaxRangeEnd,
      exclude \in { e \in SUBSET (1..MaxRangeEnd) : Cardinality(e) <= 2 } }

InitColumns ==
    /\ args \in { a \in PoolArgsSet : a.training_percent = 50 /\ a.training_row_count = 1
                                      /\ a.validation_row_count = 1 }
    /\ odfi = [ original_line_count |-> 4, original_column_count |-> MaxRangeEnd ]
    /\ column_set_file = NoneList
    /\ bad_line = 0
    /\ max_open_files = MaxOpenFiles
    /\ preexisting = {}
    /\ pc = "create"
    /\ column_set = NoneSet
    /\ training_available = << 2 >>
    /\ validation_available = << 3, 4 >>
    /\ starting_set_number = 1
    /\ ending_set_number = 0
    /\ file_pass_count = 1
    /\ selection_sets = << >>
    /\ i = 1
    /\ tr_set = NewTrainingSet(1)
    /\ va_set \in { NewValidationSet(1, << r >>) : r \in Range(validation_available) }
    /\ cpc = "v_columns"
    /\ ordinals = {}
    /\ call \in { c \in ExcludeCalls : c.start <= c.end }
    /\ last_error = NoneObject
    /\ passes = << >>
    /\ built = << >>
    /\ checked = << >>
    /\ open_files = {}
    /\ disk = << >>

NextColumns == GetRandomOrdinalsExclude

SpecColumns == InitColumns /\ [][NextColumns]_vars

\* Fair random draws: an integer that a draw can add is eventually drawn,
\* and a loop whose test fails is left.
SpecColumnsFair == SpecColumns /\ WF_vars(GetRandomOrdinalsExclude)

(***************************************************************************)
(* Properties.                                                             *)
(***************************************************************************)
\* The sets whose constructor returned, and the sets under construction.
TrainingSets ==
    Range(built) \cup (IF tr_set # NoneObject THEN { tr_set } ELSE {})

ValidationSets ==
    { t.validation_set : t \in { u \in TrainingSets : u.validation_set # NoneObject } }
        \cup (IF va_set # NoneObject THEN { va_set } ELSE {})

\* The ValidationSets whose constructor returned.
ConstructedValidationSets ==
    { t.validation_set : t \in { u \in TrainingSets : u.validation_set # NoneObject } }

\* C1: once define_available_ordinals has assigned the pools, the training
\* pool and the validation pool are disjoint, together they hold every
\* ordinal of 2..original_line_count exactly once, and neither holds the
\* header ordinal 1.
PoolsPartitionDataOrdinals ==
    training_available # NoneList =>
        LET pooled == training_available \o validation_available
        IN  /\ Range(training_available) \cap Range(validation_available) = {}
            /\ Range(pooled) = 2..odfi.original_line_count
            /\ IsInjective(pooled)
            /\ 1 \notin Range(pooled)

\* A shuffle that put a larger ordinal first, cut into a pool of three.
PoolsShuffledWitness ==
    /\ training_available # NoneList
    /\ Len(training_available) = 3
    /\ training_available[1] > training_available[2]
    /\ validation_available[1] < training_available[3]

\* C2: at every moment, the row ordinals of every TrainingSet of the run and
\* the row ordinals of every ValidationSet of the run (its own, or that of a
\* set of the same or of another pass) have no element in common.
TrainingRowsAvoidValidationRows ==
    \A t \in TrainingSets : \A v \in ValidationSets :
        Range(t.row_ordinals) \cap Range(v.row_ordinals) = {}

\* Three sets built in two passes, rows sampled for each.
TwoPassesBuiltWitness ==
    /\ file_pass_count = 2
    /\ Len(built) = 3
    /\ \A n \in DOMAIN built : built[n].row_ordinals # << >>

\* C3: the row ordinals of every constructed TrainingSet are exactly
\* training_row_count pairwise distinct ordinals of 2..original_line_count,
\* and those of every constructed ValidationSet exactly validation_row_count.
RowOrdinalsAsRequested ==
    /\ \A t \in Range(built) :
          /\ Len(t.row_ordinals) = args.training_row_count
          /\ IsInjective(t.row_ordinals)
          /\ Range(t.row_ordinals) \subseteq 2..odfi.original_line_count
    /\ \A v \in ConstructedValidationSets :
          /\ Len(v.row_ordinals) = args.validation_row_count
          /\ IsInjective(v.row_ordinals)
          /\ Range(v.row_ordinals) \subseteq 2..odfi.original_line_count

\* A constructed set with two training rows, and one with two validation rows.
TwoRowsSampledWitness ==
    \E t \in Range(built) :
        Len(t.row_ordinals) = 2 \/ Len(t.validation_set.row_ordinals) = 2

\* A construction has just failed with an OSError, and the constructor has
\* run its cleanup and raised.
ConstructionFailed == last_error # NoneObject /\ last_error.errno # 0

FailedInTrainingSet ==
    ConstructionFailed /\ last_error.step \in { "t_row_ordinals", "t_set_file" }

\* No stream of the set that failed, or of its ValidationSet, is open.
FailedStreamsClosed ==
    /\ \A n \in 1..5 : ArtifactNames(last_error.file_ordinal)[n] \notin open_files
    /\ last_error.set.set_file # "open"
    /\ FailedInTrainingSet => last_error.set.validation_set.set_file # "open"

\* With a budget of four open files the third set is the one that cannot be
\* opened, and the batch is the first two sets.
BudgetOfFourStopsAtThirdSet ==
    (max_open_files = 4 /\ last_error.errno = EMFILE) =>
        /\ last_error.file_ordinal = 3
        /\ Len(selection_sets) = 2
        /\ pc = "scan"
        /\ ending_set_number = 2

\* C4 as claimed: once the constructor of a set has raised a file error, at
\* whichever of its five steps, no artifact named after that set ordinal is
\* on disk and no stream of the set or of its ValidationSet is open; with a
\* budget of four files the third set fails and the batch has two sets.
FailedConstructionLeavesNoArtifact ==
    ConstructionFailed =>
        /\ \A n \in 1..5 : ~ Exists(disk, ArtifactNames(last_error.file_ordinal)[n])
        /\ FailedStreamsClosed
        /\ BudgetOfFourStopsAtThirdSet

\* C4 as amended: once the constructor has raised, no artifact that the
\* attempt created or opened is on disk: a file still there under one of the
\* set's names was there before the run and still has the content it had;
\* no stream of the set or of its ValidationSet is open; with a budget of
\* four files the third set fails and the batch has two sets.
FailedConstructionLeavesNoCreatedArtifact ==
    ConstructionFailed =>
        /\ \A n \in 1..5 :
              LET name == ArtifactNames(last_error.file_ordinal)[n]
              IN  Exists(disk, name) => (name \in preexisting /\ disk[name] = StaleContent)
        /\ FailedStreamsClosed
        /\ BudgetOfFourStopsAtThirdSet

\* The third set ran out of files at its training row ordinals, after its
\* three validation artifacts were created over files of a previous run.
TrainingSetFailedOverStaleFilesWitness ==
    /\ ConstructionFailed
    /\ last_error.errno = EMFILE
    /\ last_error.step = "t_row_ordinals"
    /\ last_error.file_ordinal = 3
    /\ preexisting # {}
    /\ pc = "scan"

\* C5: when set k fails with too many open files and at least one set of the
\* batch was constructed, the run goes on: the batch is the sets
\* starting_set_number..k-1 and the ending set number is k-1.
TooManyOpenFilesStopsBatch ==
    (ConstructionFailed /\ last_error.errno = EMFILE /\ Len(selection_sets) >= 1) =>
        /\ pc = "scan"
        /\ ending_set_number = last_error.file_ordinal - 1
        /\ [ n \in DOMAIN selection_sets |-> selection_sets[n].file_ordinal ]
               = [ n \in 1..(last_error.file_ordinal - starting_set_number) |->
                       starting_set_number + n - 1 ]

\* C6: when the run ends without fatal error, the passes printed are
\* consecutive ranges that start at 1 and end at training_set_count, every
\* set ordinal was constructed once, all five artifacts of every set are on
\* disk and every stream is closed.
CompletedRunCoversEverySet ==
    pc = "done" =>
        /\ Len(passes) >= 1
        /\ passes[1][1] = 1
        /\ passes[Len(passes)][2] = args.training_set_count
        /\ \A k \in DOMAIN passes : passes[k][1] <= passes[k][2]
        /\ \A k \in 1..(Len(passes) - 1) : passes[k + 1][1] = passes[k][2] + 1
        /\ [ n \in DOMAIN built |-> built[n].file_ordinal ]
               = [ n \in 1..args.training_set_count |-> n ]
        /\ \A n \in 1..args.training_set_count :
              \A a \in 1..5 : Exists(disk, ArtifactNames(n)[a])
        /\ open_files = {}

\* A run of three sets that took two passes.
TwoPassRunDoneWitness ==
    /\ pc = "done"
    /\ Len(passes) = 2
    /\ args.training_set_count = 3

\* The ordinals of S, smallest first: the n-th is the one with n - 1 smaller
\* ordinals in S.
Ascending(S) ==
    [ n \in 1..Cardinality(S) |-> CHOOSE x \in S : Cardinality({ y \in S : y < x }) = n - 1 ]

\* The line written for fields under output_columns, spelled out for up to
\* four output columns, and for all of seven fields when there are none.
ExpectedLine(output_columns, fields) ==
    IF output_columns = NoneList
    THEN fields[1] \o "," \o fields[2] \o "," \o fields[3] \o "," \o fields[4] \o ","
             \o fields[5] \o "," \o fields[6] \o "," \o fields[7] \o "\n"
    ELSE CASE Len(output_columns) = 1 -> fields[output_columns[1]] \o "\n"
           [] Len(output_columns) = 2 ->
                  fields[output_columns[1]] \o "," \o fields[output_columns[2]] \o "\n"
           [] Len(output_columns) = 3 ->
                  fields[output_columns[1]] \o "," \o fields[output_columns[2]] \o ","
                      \o fields[output_columns[3]] \o "\n"
           [] Len(output_columns) = 4 ->
                  fields[output_columns[1]] \o "," \o fields[output_columns[2]] \o ","
                      \o fields[output_columns[3]] \o "," \o fields[output_columns[4]] \o "\n"

\* The data file of set holds the lines of its row ordinals, one each, in
\* ascending order of ordinal, count of them, and not the header line.
DataFileHoldsRows(set, count) ==
    LET rows == Ascending(Range(set.row_ordinals))
    IN  /\ Len(disk[set.file_name]) = count
        /\ disk[set.file_name] =
               [ n \in DOMAIN rows |->
                     ExpectedLine(set.output_columns,
                                  OriginalLine(rows[n], odfi.original_column_count)) ]
        /\ ExpectedLine(set.output_columns, OriginalLine(1, odfi.original_column_count))
               \notin Range(disk[set.file_name])

\* C7: after a pass over the whole original file, the data file of every set
\* of the batch holds exactly one line for each of its row ordinals, in
\* ascending order of ordinal (training_row_count lines in a training file,
\* validation_row_count lines in a validation file), never the header, and
\* no line is in both a training file and the file of its validation set.
ScanWritesSelectedRows ==
    pc = "close" =>
        \A n \in DOMAIN selection_sets :
            LET t == selection_sets[n]
            IN  /\ DataFileHoldsRows(t, args.training_row_count)
                /\ DataFileHoldsRows(t.validation_set, args.validation_row_count)
                /\ Range(disk[t.file_name]) \cap Range(disk[t.validation_set.file_name]) = {}

\* A pass over a set whose two rows were sampled larger ordinal first.
ScanOfUnorderedRowsWitness ==
    /\ pc = "close"
    /\ \E n \in DOMAIN selection_sets :
          \/ /\ Len(selection_sets[n].row_ordinals) = 2
             /\ selection_sets[n].row_ordinals[1] > selection_sets[n].row_ordinals[2]
          \/ /\ Len(selection_sets[n].validation_set.row_ordinals) = 2
             /\ selection_sets[n].validation_set.row_ordinals[1]
                    > selection_sets[n].validation_set.row_ordinals[2]

\* What the calls of checked must have written, in order.
RECURSIVE ExpectedWritten(_, _)
ExpectedWritten(set, calls) ==
    IF calls = << >> THEN << >>
    ELSE (IF \E n \in DOMAIN set.row_ordinals : set.row_ordinals[n] = Head(calls).ordinal
          THEN << ExpectedLine(set.output_columns, Head(calls).fields) >>
          ELSE << >>)
         \o ExpectedWritten(set, Tail(calls))

\* C8: a check_line call whose ordinal is not among the row ordinals writes
\* nothing; one whose ordinal is appends one line, the fields at the output
\* columns in their order, joined by commas and ended by a newline, or all
\* the fields when there are no output columns; output columns 2, 5, 7 on
\* fields A..G give "B,E,G".
CheckLineWritesProjection ==
    pc = "check_line" =>
        /\ disk[va_set.file_name] = ExpectedWritten(va_set, checked)
        /\ \A n \in DOMAIN checked :
              ( /\ va_set.output_columns = << 2, 5, 7 >>
                /\ checked[n].fields = Letters
                /\ checked[n].ordinal \in Range(va_set.row_ordinals)
                /\ Len(checked) = 1 )
              => disk[va_set.file_name] = << "B,E,G\n" >>

\* The call of the example, after a call for a line that is not of the set.
CheckLineExampleWitness ==
    /\ pc = "check_line"
    /\ va_set.output_columns = << 2, 5, 7 >>
    /\ Len(checked) = 2
    /\ checked[1].ordinal \notin Range(va_set.row_ordinals)
    /\ checked[2].fields = Letters
    /\ disk[va_set.file_name] = << "B,E,G\n" >>

\* Every set that has its output columns.
SetsWithOutputColumns ==
    { set \in TrainingSets \cup ValidationSets : set.output_columns # NoneList }

\* C9: the output columns of every set are the case column, the outcome
\* column, then its column ordinals in strictly ascending order, and nothing
\* else.
OutputColumnsCaseOutcomeThenAscending ==
    \A set \in SetsWithOutputColumns :
        LET oc == set.output_columns
        IN  /\ Len(oc) = 2 + Cardinality(set.column_ordinals)
            /\ oc[1] = args.case_column
            /\ oc[2] = args.outcome_column
            /\ \A a, b \in 3..Len(oc) : a < b => oc[a] < oc[b]
            /\ { oc[k] : k \in 3..Len(oc) } = set.column_ordinals

\* A set whose columns came from a column set file that lists 4 before 2,
\* with a case column after its outcome column.
OutputColumnsOfUnorderedColumnsWitness ==
    /\ column_set_file = << 4, 2 >>
    /\ \E set \in SetsWithOutputColumns : set.output_columns = << 3, 1, 2, 4 >>

\* cleanup() called again on the set whose construction failed.
CleanupAgain ==
    IF FailedInTrainingSet
    THEN TrainingSetCleanup(last_error.set, disk, open_files)
    ELSE ValidationSetCleanup(last_error.set, disk, open_files)

\* C10: on a set whose construction failed at any step, a second cleanup()
\* raises nothing and leaves the files on disk, the open files and the
\* streams of the set as the first call left them.
SecondCleanupChangesNothing ==
    ConstructionFailed =>
        /\ ~ CleanupAgain.raised
        /\ CleanupAgain.disk = disk
        /\ CleanupAgain.open_files = open_files
        /\ CleanupAgain.set = last_error.set

\* A TrainingSet whose data file could not be opened: the first cleanup
\* removed four files and closed the validation stream.
CleanupAfterLastStepWitness ==
    /\ ConstructionFailed
    /\ last_error.step = "t_set_file"
    /\ last_error.set.validation_set.set_file = "closed"
    /\ \A n \in 1..4 : ~ Exists(disk, ArtifactNames(last_error.file_ordinal)[n])

\* The sizes of the two pools, as define_available_ordinals computes them.
TrainingPoolSize ==
    TrainingOrdinalCount(args.training_percent, odfi.original_line_count - 1)

ValidationPoolSize == (odfi.original_line_count - 1) - TrainingPoolSize

RowCountReachesPool ==
    \/ args.training_row_count >= TrainingPoolSize
    \/ args.validation_row_count >= ValidationPoolSize

\* Nothing was constructed: no set exists, no file was created, removed or
\* opened, no pass was made.
NothingConstructed ==
    /\ disk = [ f \in preexisting |-> StaleContent ]
    /\ open_files = {}
    /\ built = << >> /\ selection_sets = << >>
    /\ tr_set = NoneObject /\ va_set = NoneObject
    /\ passes = << >> /\ file_pass_count = 0

BeforeTheLoop == { "check_args", "get_column_set", "define_available_ordinals" }

\* C11: if training_row_count >= the size of the training pool or
\* validation_row_count >= the size of the validation pool, the run ends
\* with a fatal exit in define_available_ordinals at the latest: no set is
\* constructed, no output file is created and the pools stay unassigned.  The
\* run goes on to batch construction only when both counts are strictly
\* smaller than their pools.
RowCountsCheckedBeforeAnySet ==
    /\ RowCountReachesPool =>
           /\ pc \in BeforeTheLoop \cup { "exit" }
           /\ NothingConstructed
           /\ training_available = NoneList
           /\ validation_available = NoneList
    /\ pc \notin BeforeTheLoop \cup { "exit" } =>
           /\ args.training_row_count < TrainingPoolSize
           /\ args.validation_row_count < ValidationPoolSize
           /\ Len(training_available) = TrainingPoolSize
           /\ Len(validation_available) = ValidationPoolSize

\* A run whose arguments passed every earlier check and whose training row
\* count equals the size of the training pool has exited.
RowCountEqualToPoolExitWitness ==
    /\ pc = "exit"
    /\ ArgsOk /\ ArgsAdditionalOk
    /\ args.column_set_file_name = None
    /\ args.training_row_count = TrainingPoolSize
    /\ args.validation_row_count < ValidationPoolSize
    /\ disk = << >>

\* The columns of the original file other than the case and outcome column.
SampleableColumns ==
    (1..odfi.original_column_count) \ { args.case_column, args.outcome_column }

\* More columns are requested than can be sampled, and no column set file
\* restricts the columns.
InfeasibleColumnCount ==
    /\ args.column_set_file_name = None
    /\ args.column_count > Cardinality(SampleableColumns)

\* The loop of get_random_ordinals_exclude goes on and no draw can add an
\* ordinal: the call does not return and the run cannot end.
ColumnSamplingCannotEnd ==
    /\ pc = "create" /\ cpc = "v_columns"
    /\ WhileTest(ordinals, call.count)
    /\ \A r \in call.start..call.end :
          AddUnlessExcluded(ordinals, r, call.exclude) = ordinals

\* C12: a column count larger than the number of columns other than the case
\* and outcome column, with no column set file, is a configuration error:
\* the run exits before any output file is created, so it is never in the
\* sampling loop unable to leave it, and it has created nothing unless it
\* is still to exit.
InfeasibleColumnCountIsFatal ==
    InfeasibleColumnCount =>
        /\ ~ ColumnSamplingCannotEnd
        /\ pc = "exit" => NothingConstructed

\* The manifest of the ordinals S: one line for each, smallest first.
ManifestOf(S) ==
    LET ascending == Ascending(S)
    IN  [ n \in DOMAIN ascending |-> ToString(ascending[n]) \o "\n" ]

\* C13: for every set whose constructor returned, the row ordinal file
\* lists exactly the row ordinals check_line tests against, one to a line,
\* each once, in strictly ascending order; the column ordinal file of the
\* validation set lists exactly its column ordinals in the same way.
ManifestsListOrdinalsAscending ==
    \A m \in DOMAIN built :
        LET t == built[m]
            v == t.validation_set
        IN  /\ Len(disk[t.row_ordinal_file_name]) = Len(t.row_ordinals)
            /\ disk[t.row_ordinal_file_name] = ManifestOf(Range(t.row_ordinals))
            /\ Len(disk[v.row_ordinal_file_name]) = Len(v.row_ordinals)
            /\ disk[v.row_ordinal_file_name] = ManifestOf(Range(v.row_ordinals))
            /\ disk[v.column_ordinal_file_name] = ManifestOf(v.column_ordinals)
            /\ \A n \in DOMAIN selection_sets :
                  selection_sets[n].file_ordinal = t.file_ordinal =>
                      /\ selection_sets[n].row_ordinals = t.row_ordinals
                      /\ selection_sets[n].validation_set.row_ordinals = v.row_ordinals

\* A set whose two training rows were sampled larger ordinal first, with its
\* manifests.
ManifestOfUnorderedRowsWitness ==
    \E t \in Range(built) :
        /\ t.row_ordinals = << 5, 3 >>
        /\ disk[t.row_ordinal_file_name] = << "3\n", "5\n" >>
        /\ disk[t.validation_set.column_ordinal_file_name] = << "2\n", "4\n" >>

\* The step is a construction that fails with an OSError, cleanup included.
ConstructionFailsNow ==
    /\ last_error = NoneObject
    /\ last_error' # NoneObject
    /\ last_error'.errno # 0

\* The step leaves the file called name as it is, on disk and as a stream.
FileUntouched(name) ==
    /\ Exists(disk, name) <=> Exists(disk', name)
    /\ Exists(disk, name) => disk'[name] = disk[name]
    /\ name \in open_files <=> name \in open_files'

\* C14: when the construction of set k fails, for lack of file handles or
\* with another file error, and the set is cleaned up, every artifact and
\* every stream of the earlier sets of the batch and of the sets of earlier
\* batches is as it was: only files of ordinal k are removed.
FailureTouchesOnlyFailedOrdinal ==
    [][ ConstructionFailsNow =>
            /\ \A t \in Range(built) :
                  \A a \in 1..5 : FileUntouched(ArtifactNames(t.file_ordinal)[a])
            /\ (DOMAIN disk) \ (DOMAIN disk') \subseteq Range(ArtifactNames(i))
            /\ open_files \ open_files' \subseteq Range(ArtifactNames(i))
            /\ selection_sets' = selection_sets
            /\ built' = built ]_vars

\* The third set has just failed for lack of file handles at its training
\* row ordinals; the ten artifacts of the first two sets are on disk and
\* their four data files are open.
ThirdSetFailedBesideTwoOpenSetsWitness ==
    /\ ConstructionFailed
    /\ last_error.errno = EMFILE
    /\ last_error.step = "t_row_ordinals"
    /\ last_error.file_ordinal = 3
    /\ Len(selection_sets) = 2
    /\ \A n \in 1..2 : \A a \in 1..5 : Exists(disk, ArtifactNames(n)[a])
    /\ open_files = SetFileNames(selection_sets)
    /\ \A a \in 1..5 : ~ Exists(disk, ArtifactNames(3)[a])

\* get_random_ordinals_exclude has returned to the constructor, which keeps
\* the result as the column ordinals of the ValidationSet.
ColumnsSampled ==
    /\ call # NoneObject
    /\ va_set # NoneObject
    /\ va_set.column_ordinals # NoneSet

\* C15: whenever get_random_ordinals_exclude(count, start, end, exclude)
\* returns, the result has exactly count elements (a set, so pairwise
\* distinct), each in start..end and none in exclude; so a ValidationSet that
\* samples its own columns has column_count column ordinals, neither the case
\* column nor the outcome column among them.
SampledOrdinalsAsRequested ==
    ColumnsSampled =>
        /\ Cardinality(va_set.column_ordinals) = call.count
        /\ \A r \in va_set.column_ordinals : r >= call.start /\ r <= call.end
        /\ va_set.column_ordinals \cap call.exclude = {}
        /\ call = ColumnsCall =>
               /\ Cardinality(va_set.column_ordinals) = args.column_count
               /\ args.case_column \notin va_set.column_ordinals
               /\ args.outcome_column \notin va_set.column_ordinals

\* The call of the constructor for two columns of four, case column 3 and
\* outcome column 1, has returned the two columns left.
TwoOfFourColumnsSampledWitness ==
    /\ ColumnsSampled
    /\ call = ColumnsCall
    /\ call.exclude = { 1, 3 }
    /\ va_set.column_ordinals = { 2, 4 }

\* The integers of start..end that are not in exclude.
Candidates == (call.start..call.end) \ call.exclude

InExcludeLoop == pc = "create" /\ cpc = "v_columns" /\ call # NoneObject

\* A call for more integers than there are candidates stays in its loop:
\* it does not return and nothing is raised.
TooLargeCountNeverReturns ==
    [][ (InExcludeLoop /\ call.count > Cardinality(Candidates)) =>
            /\ pc' = "create" /\ cpc' = "v_columns"
            /\ last_error' = last_error
            /\ va_set' = va_set
            /\ ordinals' \subseteq Candidates ]_vars

\* A call for fewer integers than there are candidates returns.
SmallerCountReturns ==
    (InExcludeLoop /\ call.count < Cardinality(Candidates)) ~> cpc = "v_row_ordinals"

\* C16: get_random_ordinals_exclude does not bound its retries: when count
\* exceeds the number of integers of start..end that are not in exclude it
\* never returns and never raises, and when count is smaller than that
\* number it returns, under fair random draws.
RetriesUnbounded == TooLargeCountNeverReturns /\ SmallerCountReturns

\* A call for three integers has collected the only two candidates and
\* draws on.
ExcludeLoopCannotEndWitness ==
    /\ ColumnSamplingCannotEnd
    /\ call.count = 3
    /\ Candidates = ordinals
    /\ Cardinality(ordinals) = 2

\* The file called name was created by this run: it is on disk and is not a
\* file an earlier run left there.
Created(name) ==
    /\ Exists(disk, name)
    /\ name \in preexisting => disk[name] # StaleContent

\* How many artifacts the construction under way has created when it is at
\* step cpc.
ArtifactsCreatedAt(step) ==
    CASE step \in { "init", "v_columns", "v_row_ordinals" } -> 0
      [] step = "v_column_ordinals" -> 1
      [] step = "v_set_file" -> 2
      [] step \in { "t_sample", "t_row_ordinals" } -> 3
      [] step = "t_set_file" -> 4

\* The row ordinal file of set is complete and closed.
RowManifestComplete(set) ==
    /\ Exists(disk, set.row_ordinal_file_name)
    /\ disk[set.row_ordinal_file_name] = ManifestOf(Range(set.row_ordinals))
    /\ set.row_ordinal_file_name \notin open_files

\* A data file of the set t or of its validation set is open only once the
\* row ordinal file of the same set is complete and closed.
StreamsOpenAfterManifests(t) ==
    /\ t.file_name \in open_files => RowManifestComplete(t)
    /\ t.validation_set # NoneObject =>
           (t.validation_set.file_name \in open_files
                => RowManifestComplete(t.validation_set))

\* C17: the artifacts of a set ordinal are created in the order validation
\* row ordinals, validation column ordinals, validation data file, training
\* row ordinals, training data file: at every step of a construction the
\* artifacts it has created are the first ones of that sequence, as many as
\* the steps done, and all five once the set is constructed; the row
\* ordinal file of a set is written and closed when its data file is open.
ArtifactsCreatedInOrder ==
    /\ pc = "create" =>
           LET names == ArtifactNames(i)
               created == ArtifactsCreatedAt(cpc)
           IN  \A a \in 1..5 : Created(names[a]) <=> a <= created
    /\ \A m \in DOMAIN built :
           LET names == ArtifactNames(built[m].file_ordinal)
           IN  \A a \in 1..5 : Created(names[a])
    /\ \A m \in DOMAIN built : StreamsOpenAfterManifests(built[m])
    /\ tr_set # NoneObject => StreamsOpenAfterManifests(tr_set)

\* The second set is at its last step: four of its artifacts are created,
\* its training data file is not.
FourArtifactsCreatedWitness ==
    /\ pc = "create" /\ cpc = "t_set_file"
    /\ i = 2
    /\ \A a \in 1..4 : Created(ArtifactNames(2)[a])
    /\ ~ Exists(disk, TrainingFileName(2))
    /\ ValidationFileName(2) \in open_files

\* C18: a ValidationSet that is given a restricted column set does not
\* write a column ordinal file: when a column set is supplied, no column
\* ordinal file is created for any set.
NoColumnManifestForColumnSet ==
    column_set # NoneSet =>
        \A v \in ValidationSets :
            ~ Created(ValidationColumnOrdinalFileName(v.file_ordinal))

\* C19: a TrainingSet constructs its ValidationSet before it samples its own
\* rows and takes over its columns: a TrainingSet that has its rows has a
\* ValidationSet whose three files are created and whose data file is open,
\* its column ordinals and its output columns are those of its
\* ValidationSet, and with a column set file both have the columns of that
\* file, in every set of the run.
TrainingSetAdoptsValidationColumns ==
    \A t \in TrainingSets :
        t.row_ordinals # << >> =>
            LET v == t.validation_set
            IN  /\ v # NoneObject
                /\ v.file_ordinal = t.file_ordinal
                /\ v.set_file = "open"
                /\ Exists(disk, ValidationRowOrdinalFileName(t.file_ordinal))
                /\ Exists(disk, ValidationColumnOrdinalFileName(t.file_ordinal))
                /\ Exists(disk, ValidationFileName(t.file_ordinal))
                /\ t.column_ordinals = v.column_ordinals
                /\ t.output_columns = v.output_columns
                /\ t.output_columns # NoneList
                /\ column_set # NoneSet =>
                       /\ t.column_ordinals = column_set
                       /\ v.column_ordinals = column_set
                       /\ column_set = Range(column_set_file)

\* A constructed set whose ValidationSet sampled column 4 alone.
TrainingSetWithSampledColumnWitness ==
    /\ column_set = NoneSet
    /\ \E t \in Range(built) :
          /\ t.validation_set.column_ordinals = { 4 }
          /\ t.column_ordinals = { 4 }
          /\ t.output_columns = << 3, 1, 4 >>

\* How many lines the file called name has more in after, the files as
\* TrainingSet.check_line leaves them, than on the disk as it is.
LinesAddedTo(name, after) == Len(after[name]) - Len(disk[name])

\* How many lines of the file called name are the line of ordinal.
LinesOf(name, output_columns, ordinal) ==
    Cardinality({ n \in DOMAIN disk[name] :
                    disk[name][n] = ExpectedLine(output_columns, LineFields(ordinal)) })

\* C20: TrainingSet.check_line hands the line to the check_line of its
\* ValidationSet and then tests the line itself: the validation file gets the
\* line exactly when its ordinal is a validation row, the training file
\* exactly when it is a training row, the result is that of the two calls in
\* this order, and for no ordinal both files get a line, in one call and
\* over a whole pass.
CheckLineWritesToOneFileAtMost ==
    pc \in { "scan", "close" } =>
    \A n \in DOMAIN selection_sets :
        LET t == selection_sets[n]
            v == t.validation_set
        IN  \A ordinal \in 1..odfi.original_line_count :
                /\ pc = "scan" =>
                       LET fields == LineFields(ordinal)
                           after == TrainingSetCheckLine(t, ordinal, fields, disk)
                           to_validation == LinesAddedTo(v.file_name, after)
                           to_training == LinesAddedTo(t.file_name, after)
                       IN  /\ to_validation = IF ordinal \in Range(v.row_ordinals) THEN 1 ELSE 0
                           /\ to_training = IF ordinal \in Range(t.row_ordinals) THEN 1 ELSE 0
                           /\ to_validation + to_training <= 1
                           /\ after = CheckLine(t, ordinal, fields,
                                                CheckLine(v, ordinal, fields, disk))
                /\ pc = "close" =>
                       LinesOf(t.file_name, t.output_columns, ordinal)
                           + LinesOf(v.file_name, v.output_columns, ordinal) <= 1

\* After a pass, a set with two lines in its training file and one in its
\* validation file.
ThreeLinesInTwoFilesWitness ==
    /\ pc = "close"
    /\ \E n \in DOMAIN selection_sets :
          /\ Len(disk[selection_sets[n].file_name]) = 2
          /\ Len(disk[selection_sets[n].validation_set.file_name]) = 1

\* The sets of the current batch, the one under construction included.
BatchSize == Len(selection_sets) + (IF tr_set # NoneObject THEN 1 ELSE 0)

\* C21: after a pass and before the next batch is constructed every data
\* file of the finished batch, training and validation, is closed; no output
\* stream is open when a batch starts; and at every moment at most two
\* output streams are open for each set of the current batch.
StreamsClosedBetweenBatches ==
    /\ Cardinality(open_files) <= 2 * BatchSize
    /\ pc = "loop" =>
           /\ open_files = {}
           /\ \A n \in DOMAIN selection_sets :
                 /\ selection_sets[n].set_file = "closed"
                 /\ selection_sets[n].validation_set.set_file = "closed"
    /\ (pc = "create" /\ cpc = "init" /\ selection_sets = << >>) => open_files = {}

\* The first batch, of two sets, is closed and another batch is to follow.
FirstBatchClosedWitness ==
    /\ pc = "loop"
    /\ file_pass_count = 1
    /\ Len(selection_sets) = 2
    /\ selection_sets[2].validation_set.set_file = "closed"
    /\ ending_set_number < args.training_set_count


\* The step is a construction failure on the first set of the batch, or one
\* with another error than too many open files.
FatalFailureNow ==
    /\ last_error = NoneObject
    /\ last_error' # NoneObject
    /\ Len(selection_sets) = 0 \/ last_error'.errno # EMFILE

\* C22: a construction failure on the first set of a batch, or with another
\* error than too many open files at any position, ends the run: the step
\* goes to the exit, no pass is recorded for the batch, and nothing is done
\* after the exit, neither a scan nor another batch.
FirstOrUnexpectedFailureIsFatal ==
    [][ /\ pc # "exit"
        /\ FatalFailureNow =>
              /\ pc' = "exit"
              /\ passes' = passes
              /\ file_pass_count' = file_pass_count
              /\ selection_sets' = selection_sets ]_vars

\* After two sets were constructed the third fails with another error than
\* too many open files, and the run has ended without any scan.
UnexpectedFailureAfterTwoSetsWitness ==
    /\ pc = "exit"
    /\ ConstructionFailed
    /\ last_error.errno = ENOSPC
    /\ Len(selection_sets) = 2
    /\ passes = << >>


\* The run has ended on a constructor exception that is not the too many
\* open files error.
UnexpectedConstructionError ==
    /\ pc = "exit"
    /\ last_error # NoneObject
    /\ last_error.errno # EMFILE

\* C23: when the construction of a set ends the run with an unexpected
\* error, no artifact that the run created for that set ordinal is on disk
\* at the exit.
UnexpectedErrorRemovesCreatedArtifacts ==
    UnexpectedConstructionError =>
        /\ ~ Created(ValidationFileName(last_error.file_ordinal))
        /\ ~ Created(ValidationRowOrdinalFileName(last_error.file_ordinal))
        /\ ~ Created(ValidationColumnOrdinalFileName(last_error.file_ordinal))
        /\ ~ Created(TrainingFileName(last_error.file_ordinal))
        /\ ~ Created(TrainingRowOrdinalFileName(last_error.file_ordinal))

\* The second set had its three validation artifacts and its training row
\* ordinals on disk when the training data file could not be opened; none
\* of them is left at the exit, and the files of the first set are.
TrainingFileOpenFailedWitness ==
    /\ UnexpectedConstructionError
    /\ last_error.errno = ENOSPC
    /\ last_error.step = "t_set_file"
    /\ last_error.file_ordinal = 2
    /\ preexisting = {}
    /\ \A n \in 1..5 : ~ Exists(disk, ArtifactNames(2)[n])
    /\ \A n \in 1..5 : Exists(disk, ArtifactNames(1)[n])


\* The run has ended inside a scan, on a line without delimiter.
ScanStopped ==
    /\ pc = "exit"
    /\ last_error = NoneObject
    /\ passes # << >>

\* The data file of set holds the lines of its row ordinals smaller than r,
\* in ascending order, and nothing else.
DataFileHoldsRowsBefore(set, r) ==
    LET rows == Ascending({ o \in Range(set.row_ordinals) : o < r })
    IN  disk[set.file_name] =
            [ n \in DOMAIN rows |->
                  ExpectedLine(set.output_columns,
                               OriginalLine(rows[n], odfi.original_column_count)) ]

\* C24: a line without delimiter at ordinal r ends the run inside the scan:
\* every artifact of the batch is still on disk, each data file holds the
\* lines of its row ordinals smaller than r and no line of r or after it,
\* and the pass that stopped is the last one started.
MissingDelimiterStopsScan ==
    ScanStopped =>
        /\ bad_line # 0
        /\ Len(passes) = file_pass_count
        /\ passes[Len(passes)] = << starting_set_number, ending_set_number >>
        /\ \A n \in DOMAIN selection_sets :
              LET t == selection_sets[n]
              IN  /\ \A a \in 1..5 : Exists(disk, ArtifactNames(t.file_ordinal)[a])
                  /\ DataFileHoldsRowsBefore(t, bad_line)
                  /\ DataFileHoldsRowsBefore(t.validation_set, bad_line)

\* The scan stopped at line 3 with a set whose training row, line 2, was
\* written and whose validation row, after line 3, was not.
ScanStoppedBetweenRowsWitness ==
    /\ ScanStopped
    /\ bad_line = 3
    /\ \E n \in DOMAIN selection_sets :
          /\ selection_sets[n].row_ordinals = << 2 >>
          /\ Len(disk[selection_sets[n].file_name]) = 1
          /\ selection_sets[n].validation_set.row_ordinals[1] > 3
          /\ disk[selection_sets[n].validation_set.file_name] = << >>


\* What a set is sampled to be: its rows, its columns, its output columns.
Selection(set) ==
    << set.row_ordinals, set.column_ordinals, set.output_columns >>

\* define_available_ordinals has returned.
PoolsDefined == pc \in { "loop", "create", "scan", "close" }

\* C25: no step changes the row ordinals, the column ordinals or the output
\* columns of a set of the batch, or of its validation set, once the set is
\* constructed; and once the pools are defined no step changes the training
\* pool, the validation pool or the column set.
SelectionsAndPoolsAreFrozen ==
    [][ /\ \A n \in DOMAIN selection_sets :
              (n \in DOMAIN selection_sets'
                  /\ selection_sets'[n].file_ordinal = selection_sets[n].file_ordinal) =>
                  /\ Selection(selection_sets'[n]) = Selection(selection_sets[n])
                  /\ Selection(selection_sets'[n].validation_set)
                         = Selection(selection_sets[n].validation_set)
        /\ PoolsDefined =>
              /\ training_available' = training_available
              /\ validation_available' = validation_available
              /\ column_set' = column_set ]_vars

\* The sets of a second batch are closed after their scan: constructions of
\* other sets, a scan and a close have acted on sets and pools.
SecondBatchClosedWitness ==
    /\ pc = "loop"
    /\ file_pass_count = 2
    /\ Len(selection_sets) >= 1
    /\ selection_sets[1].set_file = "closed"
    /\ selection_sets[1].row_ordinals # << >>
    /\ training_available # NoneList


\* The file a constructor step opens for the set of ordinal n.
StepFileName(step, n) ==
    CASE step = "v_row_ordinals" -> ValidationRowOrdinalFileName(n)
      [] step = "v_column_ordinals" -> ValidationColumnOrdinalFileName(n)
      [] step = "v_set_file" -> ValidationFileName(n)
      [] step = "t_row_ordinals" -> TrainingRowOrdinalFileName(n)
      [] step = "t_set_file" -> TrainingFileName(n)

\* The file called name was there before the attempt and the attempt that
\* fails in this step never opened it: it still has the content it had, and
\* if it is the file of the failing step, the open itself was refused.
NeverOpened(name) ==
    /\ name \in preexisting
    /\ Exists(disk, name)
    /\ disk[name] = StaleContent
    /\ name = StepFileName(last_error'.step, i) => last_error'.errno = EMFILE

\* C26: the cleanup of a failed construction removes only what the attempt
\* created: a file that was on disk under one of the set's names before the
\* attempt and that the attempt never opened is still there, unchanged,
\* after the cleanup; and no file the cleanup removed is left open.
CleanupKeepsFilesNeverOpened ==
    [][ ConstructionFailsNow =>
            \A n \in 1..5 :
                LET name == ArtifactNames(i)[n]
                IN  /\ NeverOpened(name) =>
                        (Exists(disk', name) /\ disk'[name] = StaleContent)
                    /\ ~ Exists(disk', name) => name \notin open_files' ]_vars


\* C28: whenever a batch is returned, complete or cut short by the too many
\* open files error, a file handle is left for the scan to open the
\* original file with.
BatchLeavesHandleForScan ==
    pc = "scan" => ~ NoFreeHandle(open_files)


\* The sets a pass can hold: every set of a batch keeps two data files open.
SetsPerPass == max_open_files \div 2

\* C27: when the budget lets a pass hold m >= 1 sets, running out of file
\* handles never ends the run; pass k makes the sets m*(k-1)+1 to m*k, the
\* last one up to training_set_count; and a run that is done has made
\* ceil(training_set_count / m) passes.
PassesOfMaximumSize ==
    SetsPerPass >= 1 =>
        /\ ~ (pc = "exit" /\ ConstructionFailed /\ last_error.errno = EMFILE)
        /\ pc # "crash"
        /\ \A k \in DOMAIN passes :
              passes[k] = << SetsPerPass * (k - 1) + 1,
                             Min(SetsPerPass * k, args.training_set_count) >>
        /\ pc = "done" =>
              Len(passes) = (args.training_set_count + SetsPerPass - 1) \div SetsPerPass


\* The ending set number of the pass before pass k, 0 before the first.
PreviousEnding(k) == IF k = 1 THEN 0 ELSE passes[k - 1][2]

\* C29: the loop over the passes comes to an end: a pass under way can
\* always end, every pass made ends at a set number larger than the pass
\* before it and not above training_set_count and starts one after the
\* ending of the pass before it, so there are never more than
\* training_set_count passes.
DriverLoopAdvances ==
    /\ ~ ColumnSamplingCannotEnd
    /\ file_pass_count <= args.training_set_count
    /\ \A k \in DOMAIN passes :
          /\ passes[k][2] > PreviousEnding(k)
          /\ passes[k][2] <= args.training_set_count
          /\ passes[k][1] = PreviousEnding(k) + 1
    /\ (pc = "loop" /\ passes # << >>) =>
          starting_set_number = passes[Len(passes)][2] + 1


\* The output columns of set are its column ordinals and two more, no two
\* the same, every one the ordinal of a field of a line of the original
\* file.
OutputColumnsInRecord(set) ==
    /\ Len(set.output_columns) = Cardinality(set.column_ordinals) + 2
    /\ IsInjective(set.output_columns)
    /\ \A n \in DOMAIN set.output_columns :
          /\ set.output_columns[n] \in 1..odfi.original_column_count
          /\ set.output_columns[n] \in DOMAIN LineFields(1)

\* C30: every set, when its construction ends, and its validation set, has
\* as output columns its column ordinals and two more, pairwise distinct and within
\* 1..original_column_count, so check_line finds a field for each of them.
OutputColumnsDistinctAndInRange ==
    [][ built' # built =>
            /\ OutputColumnsInRecord(built'[Len(built')])
            /\ OutputColumnsInRecord(built'[Len(built')].validation_set) ]_vars

\* A set with two sampled columns was constructed and the original file was
\* scanned for it.
SampledColumnsScannedWitness ==
    /\ pc = "close"
    /\ args.column_set_file_name = None
    /\ Len(built) >= 1
    /\ built[1].output_columns = << 3, 1, 2, 4 >>
    /\ built[1].column_ordinals = { 2, 4 }

====
